---- MODULE Spec2Model ----
(***************************************************************************)
(* A model of scarf: a typed document-collection layer over the redb       *)
(* storage engine.  Three specifications share this module:                *)
(*   SpecNames  - Database::collection and the table-name derivation       *)
(*   SpecCodec  - Document::serialized_indices and the index encoding      *)
(*   Spec       - Database / Transaction / CollectionOperation lifecycle   *)
(***************************************************************************)
EXTENDS Integers, Sequences, FiniteSets, TLC

VARIABLES
    \* ---- SpecNames ----
    handles,      \* Database handles opened so far (their DatabaseLocation)
    colls,        \* Collection<T> objects created by Database::collection
    calls,        \* results of name(), main_table_name(), index_table_names()
    \* ---- SpecCodec ----
    cdoc,         \* a document instance: its type's index_keys and its index_vals
    cvals,        \* the two structured values the instance draws its index values from
    cstage,       \* "input" | "serialized" | "decoded"
    cser,         \* result of serialized_indices(cdoc)
    cenc,         \* encodings of cvals[1], cvals[2]
    cdec,         \* the first encoding decoded again
    \* ---- Spec ----
    tx,           \* the transactions begun so far, by number
    committed,    \* the engine's committed tables: table name -> content
    model,        \* history: what each (collection, key) holds by the committed writes
    lock,         \* the handle's RwLock<redb::Database>: guards held
    op,           \* the collection write in progress, if any
    obs,          \* the last lookup and what it returned
    fin           \* the last commit / abort / close call and its result

nameVars  == <<handles, colls, calls>>
codecVars == <<cdoc, cvals, cstage, cser, cenc, cdec>>
dbVars    == <<tx, committed, model, lock, op, obs, fin>>
vars == <<nameVars, codecVars, dbVars>>

Range(s) == {s[i] : i \in DOMAIN s}

(***************************************************************************)
(* Bounds                                                                  *)
(***************************************************************************)
MaxColls  == 2      \* Collection objects alive in SpecNames
MaxStrLen == 1      \* longest string / binary payload of a structured value
MaxArrLen == 1      \* longest array of a structured value
MaxTxns   == 3      \* transactions begun in one run of Spec
MaxId     == 2      \* primary keys are 1..MaxId
MaxWrites == 1      \* document writes under one write transaction
MaxStrong == 2      \* live clones of one transaction handle
MaxShared == 1      \* transactions with more than one live handle at once
MaxWaiting == 1     \* writer() calls blocked inside begin_write at once

(***************************************************************************)
(* DatabaseLocation, Database, Collection                                  *)
(***************************************************************************)
Paths == {"db1"}

\* DatabaseLocation::memory()
memory == [tag |-> "InMemory", path |-> ""]

\* DatabaseLocation::file(path)
file(path) == [tag |-> "Filesystem", path |-> path]

Locations == {memory} \cup {file(p) : p \in Paths}

\* The logical collection names and index key names callers may pass; they are
\* arbitrary strings (nothing in Database::collection validates them).
CollectionNames == {"users", "a", "a/index/b"}
IndexKeyNames   == {"email", "b", "c", "b/index/c"}

\* Document types: what T::index_keys() returns (a Vec, so repeats are possible).
DocTypes ==
    { [index_keys |-> <<>>],
      [index_keys |-> <<"email">>],
      [index_keys |-> <<"email", "email">>],
      [index_keys |-> <<"b", "c">>],
      [index_keys |-> <<"b/index/c">>] }

\* Collection::new(db, name): confirmed_existence starts false.
CollectionNew(db, nm, ty) ==
    [database |-> db, collection_name |-> nm, doctype |-> ty,
     confirmed_existence |-> FALSE]

\* Collection::name
name(c) == c.collection_name

main_table_name_perdb(c) ==
    "collections/" \o c.database.path \o name(c)

\* Collection::main_table_name: format!("collections/{}", self.name())
main_table_name(c) ==
    "collections/" \o name(c)

\* Collection::index_table_names: one HashMap entry per key of T::index_keys(),
\* format!("collections/{}/index/{}", self.name(), key)
index_table_names(c) ==
    [k \in Range(c.doctype.index_keys) |->
        "collections/" \o name(c) \o "/index/" \o k]

(***************************************************************************)
(* SpecNames                                                               *)
(***************************************************************************)
\* Database::open(path) / Database::open_in_memory(): a new handle at a location
DatabaseOpen(loc) ==
    /\ UNCHANGED <<codecVars, dbVars>>
    /\ handles' = handles \cup {loc}
    /\ UNCHANGED <<colls, calls>>

\* Database::collection::<T>(name)
DatabaseCollection(db, nm, ty) ==
    /\ UNCHANGED <<codecVars, dbVars>>
    /\ db \in handles
    /\ Cardinality(colls) < MaxColls
    /\ colls' = colls \cup {CollectionNew(db, nm, ty)}
    /\ UNCHANGED <<handles, calls>>

\* a caller derives the physical names of a collection
DeriveNames(c) ==
    /\ UNCHANGED <<codecVars, dbVars>>
    /\ c \in colls
    /\ calls' = calls \cup
          {[coll |-> c, main |-> main_table_name(c), index |-> index_table_names(c)]}
    /\ UNCHANGED <<handles, colls>>

\* a Collection object is dropped
DropCollection(c) ==
    /\ UNCHANGED <<codecVars, dbVars>>
    /\ c \in colls
    /\ colls' = colls \ {c}
    /\ calls' = {x \in calls : x.coll # c}
    /\ UNCHANGED handles

InitNamesVars ==
    /\ handles = {}
    /\ colls = {}
    /\ calls = {}

NextNames ==
    \/ \E loc \in Locations : DatabaseOpen(loc)
    \/ \E db \in Locations, nm \in CollectionNames, ty \in DocTypes :
          DatabaseCollection(db, nm, ty)
    \/ \E c \in colls : DeriveNames(c)
    \/ \E c \in colls : DropCollection(c)

(***************************************************************************)
(* Structured values (rmpv::Value) and their equality                      *)
(***************************************************************************)
Nil     == [t |-> "Nil"]
Boolean(b) == [t |-> "Boolean", b |-> b]
Integer(n)  == [t |-> "Integer", n |-> n]
F64(bs) == [t |-> "F64", bits |-> bs]
String(s)  == [t |-> "String", s |-> s]
Binary(s)  == [t |-> "Binary", s |-> s]
Array(xs) == [t |-> "Array", xs |-> xs]

\* IEEE-754 binary64 bit patterns, big-endian
PosZero == <<0, 0, 0, 0, 0, 0, 0, 0>>
NegZero == <<128, 0, 0, 0, 0, 0, 0, 0>>
One     == <<63, 240, 0, 0, 0, 0, 0, 0>>
NaN     == <<127, 248, 0, 0, 0, 0, 0, 0>>

is_nan(bs) ==
    /\ bs[1] % 128 = 127
    /\ bs[2] \div 16 = 15
    /\ \/ bs[2] % 16 # 0
       \/ \E i \in 3..8 : bs[i] # 0

is_zero(bs) ==
    /\ bs[1] % 128 = 0
    /\ \A i \in 2..8 : bs[i] = 0

\* f64's PartialEq: NaN equals nothing, the two zeros are equal
f64_eq(a, b) ==
    /\ ~is_nan(a)
    /\ ~is_nan(b)
    /\ \/ a = b
       \/ is_zero(a) /\ is_zero(b)

\* rmpv::Value's derived PartialEq: same variant, equal payloads
RECURSIVE value_eq(_, _)
value_eq(v, w) ==
    /\ v.t = w.t
    /\ CASE v.t = "Nil"  -> TRUE
         [] v.t = "Boolean" -> v.b = w.b
         [] v.t = "Integer"  -> v.n = w.n
         [] v.t = "F64"  -> f64_eq(v.bits, w.bits)
         [] v.t = "String"  -> v.s = w.s
         [] v.t = "Binary"  -> v.s = w.s
         [] v.t = "Array"  -> /\ Len(v.xs) = Len(w.xs)
                            /\ \A i \in 1..Len(v.xs) : value_eq(v.xs[i], w.xs[i])

PayloadBytes == {97, 98}
Payloads     == UNION {[1..n -> PayloadBytes] : n \in 0..MaxStrLen}
IntSamples   == {-32769, -32768, -129, -128, -33, -32, -1, 0, 1, 127, 128, 255,
                 256, 65535, 65536}
FloatSamples == {PosZero, NegZero, One, NaN}

Scalars ==
    {Nil, Boolean(TRUE), Boolean(FALSE)}
        \cup {Integer(n) : n \in IntSamples}
        \cup {F64(b) : b \in FloatSamples}
        \cup {String(s) : s \in Payloads}
        \cup {Binary(s) : s \in Payloads}

ArrElems == {Nil, Integer(1), F64(NaN), Array(<<>>)}

Values ==
    Scalars \cup {Array(xs) : xs \in UNION {[1..n -> ArrElems] : n \in 0..MaxArrLen}}

(***************************************************************************)
(* rmpv::encode::write_value (MessagePack)                                 *)
(***************************************************************************)
\* the low w bytes of n, big-endian (two's complement for n < 0)
BigEndian(n, w) == [i \in 1..w |-> (n \div (256 ^ (w - i))) % 256]

\* rmp::encode::write_uint: the smallest unsigned format that holds n
write_uint(n) ==
    IF n < 128 THEN <<n>>
    ELSE IF n < 256 THEN <<204, n>>
    ELSE IF n < 65536 THEN <<205>> \o BigEndian(n, 2)
    ELSE <<206>> \o BigEndian(n, 4)

\* rmp::encode::write_sint for n < 0: the smallest signed format that holds n
write_sint(n) ==
    IF n >= -32 THEN <<256 + n>>
    ELSE IF n >= -128 THEN <<208>> \o BigEndian(n, 1)
    ELSE IF n >= -32768 THEN <<209>> \o BigEndian(n, 2)
    ELSE <<210>> \o BigEndian(n, 4)

\* rmp::encode::write_str_len
write_str_len(n) ==
    IF n < 32 THEN <<160 + n>>
    ELSE IF n < 256 THEN <<217, n>>
    ELSE <<218>> \o BigEndian(n, 2)

write_bin_len_as_str(n) ==
    write_str_len(n)

\* rmp::encode::write_bin_len
write_bin_len(n) ==
    IF n < 256 THEN <<196, n>>
    ELSE <<197>> \o BigEndian(n, 2)

\* rmp::encode::write_array_len
write_array_len(n) ==
    IF n < 16 THEN <<144 + n>>
    ELSE <<220>> \o BigEndian(n, 2)

RECURSIVE write_value(_)
RECURSIVE write_values(_)
write_values(xs) ==
    IF xs = <<>> THEN <<>>
    ELSE write_value(Head(xs)) \o write_values(Tail(xs))

write_value(v) ==
    CASE v.t = "Nil"  -> <<192>>
      [] v.t = "Boolean" -> IF v.b THEN <<195>> ELSE <<194>>
      [] v.t = "Integer"  -> IF v.n >= 0 THEN write_uint(v.n) ELSE write_sint(v.n)
      [] v.t = "F64"  -> <<203>> \o v.bits
      [] v.t = "String"  -> write_str_len(Len(v.s)) \o v.s
      [] v.t = "Binary"  -> write_bin_len(Len(v.s)) \o v.s
      [] v.t = "Array"  -> write_array_len(Len(v.xs)) \o write_values(v.xs)

(***************************************************************************)
(* BASE64_URL_SAFE_NO_PAD                                                  *)
(***************************************************************************)
Alphabet ==
    << "A","B","C","D","E","F","G","H","I","J","K","L","M","N","O","P",
       "Q","R","S","T","U","V","W","X","Y","Z","a","b","c","d","e","f",
       "g","h","i","j","k","l","m","n","o","p","q","r","s","t","u","v",
       "w","x","y","z","0","1","2","3","4","5","6","7","8","9","-","_" >>

Sextet(c) == (CHOOSE i \in 1..64 : Alphabet[i] = c) - 1

\* three bytes to four characters; a last group of one or two bytes to two or
\* three characters, with no '=' padding
RECURSIVE b64_encode(_)
b64_encode(bs) ==
    IF Len(bs) = 0 THEN <<>>
    ELSE IF Len(bs) = 1 THEN
        << Alphabet[bs[1] \div 4 + 1], Alphabet[(bs[1] % 4) * 16 + 1] >>
    ELSE IF Len(bs) = 2 THEN
        << Alphabet[bs[1] \div 4 + 1],
           Alphabet[(bs[1] % 4) * 16 + bs[2] \div 16 + 1],
           Alphabet[(bs[2] % 16) * 4 + 1] >>
    ELSE
        << Alphabet[bs[1] \div 4 + 1],
           Alphabet[(bs[1] % 4) * 16 + bs[2] \div 16 + 1],
           Alphabet[(bs[2] % 16) * 4 + bs[3] \div 64 + 1],
           Alphabet[(bs[3] % 64) + 1] >> \o b64_encode(SubSeq(bs, 4, Len(bs)))

\* the encoding of one index value, as in the loop body of serialized_indices
index_encode(v) == b64_encode(write_value(v))

serialized_indices_first(d) ==
    LET dom == DOMAIN d.index_vals
        one == IF dom = {} THEN {} ELSE {CHOOSE k \in dom : TRUE}
    IN  [k \in one |-> index_encode(d.index_vals[k])]

\* Document::serialized_indices: one entry per (key, val) of self.index_vals()
serialized_indices(d) ==
    [k \in DOMAIN d.index_vals |-> index_encode(d.index_vals[k])]

(***************************************************************************)
(* The inverse the index encoding is required to have: base64 decoding     *)
(* followed by MessagePack reading.                                        *)
(***************************************************************************)
RECURSIVE b64_decode(_)
b64_decode(cs) ==
    IF Len(cs) < 2 THEN <<>>
    ELSE
        LET a == Sextet(cs[1])
            b == Sextet(cs[2])
        IN  IF Len(cs) = 2 THEN << a * 4 + b \div 16 >>
            ELSE
                LET c == Sextet(cs[3])
                IN  IF Len(cs) = 3 THEN
                        << a * 4 + b \div 16, (b % 16) * 16 + c \div 4 >>
                    ELSE
                        << a * 4 + b \div 16,
                           (b % 16) * 16 + c \div 4,
                           (c % 4) * 64 + Sextet(cs[4]) >>
                            \o b64_decode(SubSeq(cs, 5, Len(cs)))

\* an unsigned big-endian integer
FromBigEndian(bs) ==
    LET RECURSIVE go(_, _)
        go(acc, rest) == IF rest = <<>> THEN acc
                         ELSE go(acc * 256 + Head(rest), Tail(rest))
    IN  go(0, bs)

\* a signed (two's complement) big-endian integer
FromBigEndianSigned(bs) ==
    LET RECURSIVE go(_, _)
        go(acc, rest) == IF rest = <<>> THEN acc
                         ELSE go(acc * 256 + Head(rest), Tail(rest))
    IN  IF bs[1] >= 128 THEN go(bs[1] - 256, Tail(bs)) ELSE go(0, bs)

Drop(bs, n) == SubSeq(bs, n + 1, Len(bs))

RECURSIVE read_value(_)
RECURSIVE read_values(_, _)
read_values(n, bs) ==
    IF n = 0 THEN [vs |-> <<>>, rest |-> bs]
    ELSE LET one  == read_value(bs)
             more == read_values(n - 1, one.rest)
         IN  [vs |-> <<one.v>> \o more.vs, rest |-> more.rest]

read_value(bs) ==
    LET m == bs[1]
        r == Tail(bs)
        str(n, body) == [v |-> String(SubSeq(body, 1, n)), rest |-> Drop(body, n)]
        bin(n, body) == [v |-> Binary(SubSeq(body, 1, n)), rest |-> Drop(body, n)]
        arr(n, body) == LET got == read_values(n, body)
                        IN  [v |-> Array(got.vs), rest |-> got.rest]
    IN  CASE m < 128  -> [v |-> Integer(m), rest |-> r]
          [] m >= 224 -> [v |-> Integer(m - 256), rest |-> r]
          [] m = 192  -> [v |-> Nil, rest |-> r]
          [] m = 194  -> [v |-> Boolean(FALSE), rest |-> r]
          [] m = 195  -> [v |-> Boolean(TRUE), rest |-> r]
          [] m = 204  -> [v |-> Integer(FromBigEndian(SubSeq(r, 1, 1))), rest |-> Drop(r, 1)]
          [] m = 205  -> [v |-> Integer(FromBigEndian(SubSeq(r, 1, 2))), rest |-> Drop(r, 2)]
          [] m = 206  -> [v |-> Integer(FromBigEndian(SubSeq(r, 1, 4))), rest |-> Drop(r, 4)]
          [] m = 208  -> [v |-> Integer(FromBigEndianSigned(SubSeq(r, 1, 1))), rest |-> Drop(r, 1)]
          [] m = 209  -> [v |-> Integer(FromBigEndianSigned(SubSeq(r, 1, 2))), rest |-> Drop(r, 2)]
          [] m = 210  -> [v |-> Integer(FromBigEndianSigned(SubSeq(r, 1, 4))), rest |-> Drop(r, 4)]
          [] m = 203  -> [v |-> F64(SubSeq(r, 1, 8)), rest |-> Drop(r, 8)]
          [] m \in 160..191 -> str(m - 160, r)
          [] m = 217  -> str(r[1], Drop(r, 1))
          [] m = 218  -> str(FromBigEndian(SubSeq(r, 1, 2)), Drop(r, 2))
          [] m = 196  -> bin(r[1], Drop(r, 1))
          [] m = 197  -> bin(FromBigEndian(SubSeq(r, 1, 2)), Drop(r, 2))
          [] m \in 144..159 -> arr(m - 144, r)
          [] m = 220  -> arr(FromBigEndian(SubSeq(r, 1, 2)), Drop(r, 2))

index_decode(text) == read_value(b64_decode(text)).v

(***************************************************************************)
(* SpecCodec                                                               *)
(***************************************************************************)
CodecDocTypes ==
    { [index_keys |-> <<>>],
      [index_keys |-> <<"email">>],
      [index_keys |-> <<"b", "c">>] }

\* the key sets an implementation's index_vals() may return
CodecKeySets == { {}, {"email"}, {"b"}, {"b", "c"} }

InitCodecVars ==
    /\ cvals \in Values \X Values
    /\ \E ty \in CodecDocTypes, ks \in CodecKeySets :
          cdoc = [ty |-> ty,
                  index_vals |-> [k \in ks |-> IF k = "c" THEN cvals[2] ELSE cvals[1]]]
    /\ cstage = "input"
    /\ cser = <<>>
    /\ cenc = <<>>
    /\ cdec = Nil

\* d.serialized_indices(), and the encodings of the two values on their own
SerializeIndices ==
    /\ UNCHANGED <<nameVars, dbVars>>
    /\ cstage = "input"
    /\ cser' = serialized_indices(cdoc)
    /\ cenc' = <<index_encode(cvals[1]), index_encode(cvals[2])>>
    /\ cstage' = "serialized"
    /\ UNCHANGED <<cdoc, cvals, cdec>>

\* the first encoding is decoded again
DecodeIndex ==
    /\ UNCHANGED <<nameVars, dbVars>>
    /\ cstage = "serialized"
    /\ cdec' = index_decode(cenc[1])
    /\ cstage' = "decoded"
    /\ UNCHANGED <<cdoc, cvals, cser, cenc>>

NextCodec ==
    \/ SerializeIndices
    \/ DecodeIndex

IdleCodecVars ==
    /\ cvals = <<Nil, Nil>>
    /\ cdoc = [ty |-> [index_keys |-> <<>>], index_vals |-> <<>>]
    /\ cstage = "input"
    /\ cser = <<>>
    /\ cenc = <<>>
    /\ cdec = Nil

(***************************************************************************)
(* Spec: the engine's tables                                               *)
(***************************************************************************)
TxIds == 1..MaxTxns
Ids   == 1..MaxId

\* The document type stored in Spec: one index key, "email".
UserType == [index_keys |-> <<"email">>]
Emails   == {String(<<97>>), String(<<98>>)}

Doc(i, e, r) ==
    [ty |-> UserType, id |-> i, index_vals |-> [k \in {"email"} |-> e], rest |-> r]

\* two bodies per primary key, differing in both fields
Documents ==
    {Doc(i, String(<<97>>), "x") : i \in Ids} \cup {Doc(i, String(<<98>>), "y") : i \in Ids}

Collection(nm) == CollectionNew(memory, nm, UserType)

\* the collection Spec works on, and the writes callers make to it
DbCollections == {Collection("users")}

DbWrites == {<<c, d>> : c \in DbCollections, d \in Documents}

\* a table that was never created reads as empty
TableOr(tabs, nm) == IF nm \in DOMAIN tabs THEN tabs[nm] ELSE <<>>

table_insert_keep(tabs, nm, key, val) ==
    LET old == TableOr(tabs, nm)
    IN  [n \in DOMAIN tabs \cup {nm} |->
            IF n = nm
            THEN [k \in DOMAIN old \cup {key} |->
                    IF k \in DOMAIN old THEN old[k] ELSE val]
            ELSE tabs[n]]

\* Table::insert: the table is created on first write; the value at an
\* existing key is replaced as a whole
table_insert(tabs, nm, key, val) ==
    LET old == TableOr(tabs, nm)
    IN  [n \in DOMAIN tabs \cup {nm} |->
            IF n = nm
            THEN [k \in DOMAIN old \cup {key} |-> IF k = key THEN val ELSE old[k]]
            ELSE tabs[n]]

\* MultimapTable::insert: the value joins the values already stored at the key
multimap_insert(tabs, nm, key, val) ==
    LET old == TableOr(tabs, nm)
        was == IF key \in DOMAIN old THEN old[key] ELSE {}
    IN  table_insert(tabs, nm, key, was \cup {val})

(***************************************************************************)
(* Spec: history.  What each (collection, primary key) holds as a result of *)
(* the document writes committed so far, kept beside the engine's tables.  *)
(***************************************************************************)
Keys == {<<name(c), i>> : c \in DbCollections, i \in Ids}

\* cur: the document last committed at the key, if any; rewritten: it replaced
\* a different document that an earlier transaction had committed there
NoEntry  == [cur |-> {}, rewritten |-> FALSE]
NoWrites == [k \in Keys |-> NoEntry]

Written(entries, k, d) ==
    [entries EXCEPT ![k] =
        [cur |-> {d},
         rewritten |-> IF model[k].cur \in {{}, {d}} THEN model[k].rewritten ELSE TRUE]]

(***************************************************************************)
(* Spec: transactions and their shared handles                             *)
(***************************************************************************)
NoTx ==
    [kind |-> "None", state |-> "none", strong |-> 0, ops |-> 0, view |-> <<>>,
     expect |-> NoWrites, writes |-> 0, failed |-> FALSE, refused |-> FALSE]

NoOp  == [txn |-> 0, coll |-> "", doc |-> <<>>, stage |-> "", todo |-> {}]
NoObs == [kind |-> "none", txn |-> 0, coll |-> "", pk |-> 0, ikey |-> "",
          ival |-> Nil, result |-> {}]
Ok    == [err |-> "None", strong |-> 0, weak |-> 0]
NoFin == [call |-> "none", txn |-> 0, holders |-> 0, opsAlive |-> 0,
          retry |-> FALSE, result |-> Ok]

Live(t)      == tx[t].state = "live"
LiveWriters  == {t \in TxIds : tx[t].kind = "Write" /\ Live(t)}
Fresh        == {t \in TxIds : tx[t].state = "none"}
NewId        == CHOOSE t \in Fresh : \A u \in Fresh : t <= u
\* handles held by callers: the clones not held by a CollectionOperation
CallerHandles(t) == tx[t].strong - tx[t].ops
Shared           == {t \in TxIds : tx[t].strong > 1}
MayShare(t)      == tx[t].strong < MaxStrong /\ Cardinality(Shared \ {t}) < MaxShared

\* Arc::strong_count / Arc::weak_count of a transaction's Arc; nothing in the
\* crate downgrades an Arc, so there are no weak references
strong_count(t) == tx[t].strong
weak_count(t)   == 0

arc_refs_swapped(t) ==
    [err |-> "ArcReferences", strong |-> weak_count(t), weak |-> strong_count(t)]

\* Error::arc_refs(arc): ArcReferences(strong_count, weak_count)
arc_refs(t) ==
    [err |-> "ArcReferences", strong |-> strong_count(t), weak |-> weak_count(t)]

\* std::sync::RwLock around the engine instance
can_lock(l, g) == IF g = "read" THEN ~l.writer ELSE ~l.writer /\ l.readers = 0
locked(l, g)   == IF g = "read" THEN [l EXCEPT !.readers = @ + 1]
                  ELSE [l EXCEPT !.writer = TRUE]
unlocked(l, g) == IF g = "read" THEN [l EXCEPT !.readers = @ - 1]
                  ELSE [l EXCEPT !.writer = FALSE]
GuardsHeld     == lock.readers + (IF lock.writer THEN 1 ELSE 0)

\* the guard Transaction::reader and Transaction::writer take: db.db().read()?
db_guard == "read"

begin_write_nonblocking == TRUE

\* begin_write() returns only when no other write transaction is live
begin_write_ready == LiveWriters = {}

TransactionView_fresh(t) ==
    IF tx[t].kind = "Read" THEN committed ELSE tx[t].view

\* what a Transaction handle reads: the engine transaction stored in it when
\* reader() / writer() created it
TransactionView(t) == tx[t].view

CollectionOperationNew_borrow(rec) ==
    rec

\* CollectionOperation::new: the operation keeps transaction.clone()
CollectionOperationNew(rec) ==
    [rec EXCEPT !.ops = @ + 1, !.strong = @ + 1]

\* a transaction that has ended keeps no engine state
Ended == [NoTx EXCEPT !.state = "ended"]

\* one handle of a transaction goes away; with the last one the engine
\* transaction is dropped (a write transaction dropped uncommitted is rolled back)
Released(rec) ==
    IF rec.strong = 1 THEN Ended ELSE [rec EXCEPT !.strong = @ - 1]

\* obs and fin hold what a lookup or a finalisation returned, until the caller
\* has taken the result
Idle     == obs = NoObs /\ fin = NoFin
Returned == obs' = NoObs /\ fin' = NoFin

ResultTaken ==
    /\ ~Idle
    /\ Returned
    /\ UNCHANGED <<tx, committed, model, lock, op>>
    /\ UNCHANGED <<nameVars, codecVars>>

\* Transaction::reader, also through CollectionOperation::new_reader (viaOp)
TransactionReader(viaOp) ==
    /\ Idle
    /\ UNCHANGED <<nameVars, codecVars>>
    /\ Fresh # {}
    /\ can_lock(lock, db_guard)
    /\ tx' = [tx EXCEPT ![NewId] =
                [NoTx EXCEPT !.kind = "Read", !.state = "live", !.strong = 1,
                             !.ops = IF viaOp THEN 1 ELSE 0,
                             !.view = committed, !.expect = model]]
    /\ UNCHANGED <<committed, model, lock, op>>
    /\ Returned

\* Transaction::writer, first half: the guard on the engine lock is taken and
\* begin_write() is entered
TransactionWriterCall ==
    /\ Idle
    /\ UNCHANGED <<nameVars, codecVars>>
    /\ Cardinality(Fresh) > GuardsHeld
    /\ GuardsHeld < MaxWaiting
    /\ can_lock(lock, db_guard)
    /\ lock' = locked(lock, db_guard)
    /\ UNCHANGED <<tx, committed, model, op>>
    /\ Returned

\* Transaction::writer, second half: begin_write() returns, the guard is released
\* (also through CollectionOperation::new_writer: viaOp)
TransactionWriterReturn(viaOp) ==
    /\ Idle
    /\ UNCHANGED <<nameVars, codecVars>>
    /\ GuardsHeld > 0
    /\ Fresh # {}
    /\ begin_write_ready
    /\ tx' = [tx EXCEPT ![NewId] =
                [NoTx EXCEPT !.kind = "Write", !.state = "live", !.strong = 1,
                             !.ops = IF viaOp THEN 1 ELSE 0,
                             !.view = committed, !.expect = model]]
    /\ lock' = unlocked(lock, db_guard)
    /\ UNCHANGED <<committed, model, op>>
    /\ Returned

\* #[derive(Clone)] on Transaction: another handle to the same Arc
TransactionClone(t) ==
    /\ Idle
    /\ UNCHANGED <<nameVars, codecVars>>
    /\ Live(t)
    /\ CallerHandles(t) >= 1
    /\ MayShare(t)
    /\ tx' = [tx EXCEPT ![t].strong = @ + 1]
    /\ UNCHANGED <<committed, model, lock, op>>
    /\ Returned

\* CollectionOperation::new(operation, &collection, &transaction)
OperationNew(t) ==
    /\ Idle
    /\ UNCHANGED <<nameVars, codecVars>>
    /\ Live(t)
    /\ CallerHandles(t) >= 1
    /\ MayShare(t)
    /\ tx' = [tx EXCEPT ![t] = CollectionOperationNew(tx[t])]
    /\ UNCHANGED <<committed, model, lock, op>>
    /\ Returned

\* a caller's handle is dropped
DropHandle(t) ==
    /\ Idle
    /\ UNCHANGED <<nameVars, codecVars>>
    /\ Live(t)
    /\ CallerHandles(t) >= 1
    /\ tx' = [tx EXCEPT ![t] = Released(tx[t])]
    /\ UNCHANGED <<committed, model, lock, op>>
    /\ Returned

\* a CollectionOperation that is not in the middle of a write is dropped
DropOperation(t) ==
    /\ Idle
    /\ UNCHANGED <<nameVars, codecVars>>
    /\ Live(t)
    /\ tx[t].ops - (IF op.txn = t THEN 1 ELSE 0) >= 1
    /\ tx' = [tx EXCEPT ![t] = Released([tx[t] EXCEPT !.ops = @ - 1])]
    /\ UNCHANGED <<committed, model, lock, op>>
    /\ Returned

(***************************************************************************)
(* Spec: finalisation.  Transaction::commit / abort / close are not in the  *)
(* crate's source; they are modelled from the specification (4.2, 5, 9):   *)
(* sole ownership of the Arc is reclaimed, and a shared Arc is handed to    *)
(* Error::arc_refs, which takes it by value.                               *)
(***************************************************************************)
Finalize(call, t) ==
    /\ Idle
    /\ UNCHANGED <<nameVars, codecVars>>
    /\ Live(t)
    /\ CallerHandles(t) >= 1
    /\ IF call = "close" THEN tx[t].kind = "Read" ELSE tx[t].kind = "Write"
    \* a write whose step failed is aborted by its caller, never committed
    /\ call = "commit" => ~tx[t].failed
    /\ IF strong_count(t) > 1
       THEN /\ fin' = [call |-> call, txn |-> t, holders |-> tx[t].strong,
                       opsAlive |-> tx[t].ops, retry |-> tx[t].refused,
                       result |-> arc_refs(t)]
            /\ tx' = [tx EXCEPT ![t] = [Released(tx[t]) EXCEPT !.refused = TRUE]]
            /\ UNCHANGED <<committed, model>>
       ELSE /\ fin' = [call |-> call, txn |-> t, holders |-> tx[t].strong,
                       opsAlive |-> tx[t].ops, retry |-> tx[t].refused,
                       result |-> Ok]
            /\ tx' = [tx EXCEPT ![t] = Ended]
            /\ committed' = IF call = "commit" THEN tx[t].view ELSE committed
            /\ model' = IF call = "commit" THEN tx[t].expect ELSE model
    /\ UNCHANGED <<lock, op>>
    /\ obs' = NoObs

(***************************************************************************)
(* Spec: the write path and the read path of a collection.  Neither is in   *)
(* the crate's source; they are modelled from the specification (4.3),     *)
(* over the crate's own table names and index encoding.                    *)
(***************************************************************************)
\* the operation ends: its clone of the transaction is dropped
OperationDone(rec) == Released([rec EXCEPT !.ops = IF @ > 0 THEN @ - 1 ELSE 0])

\* a write of document d into collection c starts under write transaction t
WriteBegin(t, c, d) ==
    /\ Idle
    /\ UNCHANGED <<nameVars, codecVars>>
    /\ Live(t)
    /\ tx[t].kind = "Write"
    /\ CallerHandles(t) >= 1
    /\ op.txn = 0
    /\ ~tx[t].failed
    /\ tx[t].writes < MaxWrites
    /\ MayShare(t)
    /\ tx' = [tx EXCEPT ![t] = CollectionOperationNew(tx[t])]
    /\ op' = [txn |-> t, coll |-> name(c), doc |-> d, stage |-> "main",
              todo |-> DOMAIN index_table_names(c)]
    /\ UNCHANGED <<committed, model, lock>>
    /\ Returned

\* steps 1-2: (d.id(), serialized d) goes into the main table
WriteMain ==
    /\ Idle
    /\ UNCHANGED <<nameVars, codecVars>>
    /\ op.txn # 0
    /\ op.stage = "main"
    /\ LET t == op.txn
           c == Collection(op.coll)
       IN  tx' = [tx EXCEPT ![t].view =
                     table_insert(@, main_table_name(c), op.doc.id, op.doc)]
    /\ op' = [op EXCEPT !.stage = "index"]
    /\ UNCHANGED <<committed, model, lock>>
    /\ Returned

\* step 3, for one index key k: the encoded value goes into k's index table,
\* pointing to d.id()
WriteIndex(k) ==
    /\ Idle
    /\ UNCHANGED <<nameVars, codecVars>>
    /\ op.txn # 0
    /\ op.stage = "index"
    /\ k \in op.todo
    /\ LET t == op.txn
           c == Collection(op.coll)
       IN  tx' = [tx EXCEPT ![t].view =
                     multimap_insert(@, index_table_names(c)[k],
                                     serialized_indices(op.doc)[k], op.doc.id)]
    /\ op' = [op EXCEPT !.todo = @ \ {k}]
    /\ UNCHANGED <<committed, model, lock>>
    /\ Returned

\* every table has been written: the operation returns Ok
WriteEnd ==
    /\ Idle
    /\ UNCHANGED <<nameVars, codecVars>>
    /\ op.txn # 0
    /\ op.stage = "index"
    /\ op.todo = {}
    /\ LET t == op.txn
       IN  tx' = [tx EXCEPT ![t] =
                     OperationDone(
                        [@ EXCEPT !.writes = @ + 1,
                                  !.expect = Written(@, <<op.coll, op.doc.id>>, op.doc)])]
    /\ op' = NoOp
    /\ UNCHANGED <<committed, model, lock>>
    /\ Returned

\* a step fails: the operation returns the error, leaving what it had written
WriteFail ==
    /\ Idle
    /\ UNCHANGED <<nameVars, codecVars>>
    /\ op.txn # 0
    /\ LET t == op.txn
       IN  tx' = [tx EXCEPT ![t] = OperationDone([@ EXCEPT !.failed = TRUE])]
    /\ op' = NoOp
    /\ UNCHANGED <<committed, model, lock>>
    /\ Returned

\* lookup by primary key: the main table, directly
lookup_pk(view, c, pk) ==
    LET main == TableOr(view, main_table_name(c))
    IN  IF pk \in DOMAIN main THEN {main[pk]} ELSE {}

\* lookup by index field: the query value is encoded, the index table gives the
\* matches, each match's primary key is resolved against the main table
lookup_index(view, c, k, v) ==
    LET index   == TableOr(view, index_table_names(c)[k])
        key     == index_encode(v)
        matches == IF key \in DOMAIN index THEN index[key] ELSE {}
    IN  {pk \in matches : lookup_pk(view, c, pk) # {}}

LookupPk(t, c, pk) ==
    /\ Idle
    /\ UNCHANGED <<nameVars, codecVars>>
    /\ Live(t)
    /\ tx[t].kind = "Read"
    /\ obs' = [NoObs EXCEPT !.kind = "pk", !.txn = t, !.coll = name(c), !.pk = pk,
                            !.result = lookup_pk(TransactionView(t), c, pk)]
    /\ UNCHANGED <<tx, committed, model, lock, op>>
    /\ fin' = NoFin

LookupIndex(t, c, k, v) ==
    /\ Idle
    /\ UNCHANGED <<nameVars, codecVars>>
    /\ Live(t)
    /\ tx[t].kind = "Read"
    /\ obs' = [NoObs EXCEPT !.kind = "index", !.txn = t, !.coll = name(c),
                            !.ikey = k, !.ival = v,
                            !.result = lookup_index(TransactionView(t), c, k, v)]
    /\ UNCHANGED <<tx, committed, model, lock, op>>
    /\ fin' = NoFin

InitDbVars ==
    /\ tx = [t \in TxIds |-> NoTx]
    /\ committed = <<>>
    /\ model = NoWrites
    /\ lock = [readers |-> 0, writer |-> FALSE]
    /\ op = NoOp
    /\ obs = NoObs
    /\ fin = NoFin

Next ==
    \/ \E viaOp \in BOOLEAN : TransactionReader(viaOp)
    \/ TransactionWriterCall
    \/ \E viaOp \in BOOLEAN : TransactionWriterReturn(viaOp)
    \/ \E t \in TxIds : TransactionClone(t)
    \/ \E t \in TxIds : OperationNew(t)
    \/ \E t \in TxIds : DropHandle(t)
    \/ \E t \in TxIds : DropOperation(t)
    \/ \E t \in TxIds, call \in {"commit", "abort", "close"} : Finalize(call, t)
    \/ \E t \in TxIds, w \in DbWrites : WriteBegin(t, w[1], w[2])
    \/ WriteMain
    \/ \E k \in {"email"} : WriteIndex(k)
    \/ WriteEnd
    \/ WriteFail
    \/ \E t \in TxIds, c \in DbCollections, pk \in Ids : LookupPk(t, c, pk)
    \/ \E t \in TxIds, c \in DbCollections, v \in Emails :
          LookupIndex(t, c, "email", v)
    \/ ResultTaken

InitNames == InitNamesVars /\ IdleCodecVars /\ InitDbVars

InitCodec == InitCodecVars /\ InitNamesVars /\ InitDbVars

Init == InitDbVars /\ InitNamesVars /\ IdleCodecVars

SpecNames == InitNames /\ [][NextNames]_vars

SpecCodec == InitCodec /\ [][NextCodec]_vars

Spec == Init /\ [][Next]_vars

(***************************************************************************)
(* Properties                                                              *)
(***************************************************************************)

C2_SnapshotIsolation ==
    obs.kind = "pk" =>
        obs.result = tx[obs.txn].expect[<<obs.coll, obs.pk>>].cur

\* a reader opened before a commit looks the key up after it and does not see the
\* new row, while a second reader, opened after the commit, holds it
C2_Witness ==
    /\ obs.kind = "pk"
    /\ obs.result # model[<<obs.coll, obs.pk>>].cur
    /\ \E r \in TxIds :
          /\ r # obs.txn
          /\ Live(r)
          /\ tx[r].kind = "Read"
          /\ lookup_pk(TransactionView(r), Collection(obs.coll), obs.pk)
                = model[<<obs.coll, obs.pk>>].cur

\* the main record of every document in a view has all of its index entries, and
\* every index entry has its main record
Consistent(view) ==
    \A c \in DbCollections :
        LET main == TableOr(view, main_table_name(c))
        IN  /\ \A pk \in DOMAIN main :
                 \A k \in DOMAIN index_table_names(c) :
                    LET index == TableOr(view, index_table_names(c)[k])
                        key   == index_encode(main[pk].index_vals[k])
                    IN  key \in DOMAIN index /\ pk \in index[key]
            /\ \A k \in DOMAIN index_table_names(c) :
                 LET index == TableOr(view, index_table_names(c)[k])
                 IN  \A key \in DOMAIN index : \A pk \in index[key] : pk \in DOMAIN main

C4_SingleWriter ==
    /\ Cardinality(LiveWriters) <= 1
    /\ ~lock.writer
    /\ can_lock(lock, db_guard)

\* a writer() call is blocked inside begin_write while a write transaction is
\* live, and a reader was opened meanwhile
C4_Witness ==
    /\ GuardsHeld > 0
    /\ LiveWriters # {}
    /\ \E r \in TxIds : Live(r) /\ tx[r].kind = "Read"

\* C5: the main table name is "collections/<name>", the index table names map
\* each distinct index key k to "collections/<name>/index/<k>", and collections
\* of the same name and type get the same names whatever handle they came from.
C5_TableNamesDerived ==
    /\ \A x \in calls :
          LET nm == x.coll.collection_name
          IN  /\ x.main = "collections/" \o nm
              /\ nm = "users" => x.main = "collections/users"
              /\ DOMAIN x.index = Range(x.coll.doctype.index_keys)
              /\ \A k \in DOMAIN x.index :
                    x.index[k] = "collections/" \o nm \o "/index/" \o k
              /\ (nm = "users" /\ "email" \in DOMAIN x.index) =>
                    x.index["email"] = "collections/users/index/email"
    /\ \A x, y \in calls :
          (/\ x.coll.collection_name = y.coll.collection_name
           /\ x.coll.doctype = y.coll.doctype)
              => x.main = y.main /\ x.index = y.index

\* the names were derived for the same collection name through two handles at
\* different locations, for a type that lists one index key twice
C5_Witness ==
    \E x, y \in calls :
        /\ x.coll.database # y.coll.database
        /\ x.coll.collection_name = "users"
        /\ y.coll.collection_name = "users"
        /\ x.coll.doctype = y.coll.doctype
        /\ Len(x.coll.doctype.index_keys) = 2
        /\ Cardinality(DOMAIN x.index) = 1

C7_IndexLookupExact ==
    obs.kind = "index" =>
        obs.result =
            {pk \in Ids :
                \E d \in tx[obs.txn].expect[<<obs.coll, pk>>].cur :
                    d.index_vals[obs.ikey] = obs.ival}

\* C8: where a committed write replaced a different document committed by an
\* earlier transaction, a reader opened afterwards gets the later document, whole.
C8_LastWriteWins ==
    (obs.kind = "pk" /\ tx[obs.txn].expect[<<obs.coll, obs.pk>>].rewritten) =>
        /\ obs.result = tx[obs.txn].expect[<<obs.coll, obs.pk>>].cur
        /\ obs.result \subseteq Documents
        /\ Cardinality(obs.result) = 1

\* a reader has looked up a key at which a second committed write replaced the
\* first one's document
C8_Witness ==
    /\ obs.kind = "pk"
    /\ tx[obs.txn].expect[<<obs.coll, obs.pk>>].rewritten
    /\ obs.result # {}

\* C9 as stated: the keys of serialized_indices() are the names in index_keys().
C9_KeysAreIndexKeys ==
    cstage # "input" => DOMAIN cser = Range(cdoc.ty.index_keys)

\* C9 amended: the keys of serialized_indices() are the keys of index_vals(), each
\* with the encoding of its value; they are the names in index_keys(), and the
\* keys of index_table_names(), when index_vals() returns exactly those names.
C9_KeysAreIndexVals ==
    cstage # "input" =>
        /\ DOMAIN cser = DOMAIN cdoc.index_vals
        /\ \A k \in DOMAIN cser : cser[k] = index_encode(cdoc.index_vals[k])
        /\ DOMAIN cdoc.index_vals = Range(cdoc.ty.index_keys) =>
              DOMAIN cser = DOMAIN index_table_names(CollectionNew(memory, "users", cdoc.ty))

\* an instance whose index_vals() has both of its type's two index keys was
\* serialized
C9_Witness ==
    /\ cstage = "serialized"
    /\ Range(cdoc.ty.index_keys) = {"b", "c"}
    /\ DOMAIN cdoc.index_vals = {"b", "c"}
    /\ DOMAIN cser = {"b", "c"}

\* C10: no two physical table names coincide: index table names are equal only
\* for the same collection name and index key, and no main table name is an
\* index table name.
C10_NoCollision ==
    \A x, y \in calls :
        /\ \A k1 \in DOMAIN x.index, k2 \in DOMAIN y.index :
              x.index[k1] = y.index[k2] =>
                 (x.coll.collection_name = y.coll.collection_name /\ k1 = k2)
        /\ \A k \in DOMAIN y.index : x.main # y.index[k]

====
